---- MODULE Spec2Model ----
(***************************************************************************)
(* Remote task bridge of superlcr/doraemon (remote-bridge.js):             *)
(* handleRemoteTaskCommand (dispatch), handleRemoteServiceCallback and     *)
(* sendTaskCallbackToDiscord (reconcile), the taskStatus map and           *)
(* cleanupExpiredTasks (sweep).  Every handler is an async function; one   *)
(* action of the model is the code that runs between two awaits.  A        *)
(* handler that has returned leaves its slot idle again; last holds what   *)
(* the handler returning in the step just taken did, hist what was done to *)
(* the store.  DiscordRequest (utils.js), the request with retry and       *)
(* backoff, is modelled by req; downloadFile, the artifact download, by    *)
(* dl.                                                                     *)
(***************************************************************************)
EXTENDS Integers, Sequences, FiniteSets, TLC

\* ------------------------------------------------------------------ bounds
MaxHandlers == 3      \* handler invocations (both kinds together) under Spec
MaxClockHandlers == 2 \* handler invocations under SpecClock
MaxTicks == 2         \* advances of the clock under SpecClock, TickMs each
MaxRetries == 6       \* largest retries argument of DiscordRequest under SpecRequest
MaxSweepHours == 2    \* hours the clock advances under SpecSweep
MaxReconcileHandlers == 2 \* handler invocations under SpecReconcile
MaxPathLen == 2       \* characters of filePath under SpecFileName
MaxUrlLen == 4        \* characters of the download URL under SpecFileName
MaxLegacyCallbacks == 3 \* callbacks under SpecLegacy

\* --------------------------------------------------------------- constants
HourMs == 3600000
expireTime == 24 * HourMs
TickMs == 24 * HourMs
DefaultRetries == 3   \* utils.js line 22: retries = 3
BaseDelayMs == 1000   \* utils.js line 84
MaxDelayMs == 10000   \* utils.js line 84

\* handler invocations that can be in flight at once, per handler: half the
\* budget, rounded up
Slots == 1..((MaxHandlers + 1) \div 2)
Ids == 1..MaxHandlers
RandomSuffixes == {<<"r", e>> : e \in Ids}
ClockValues == {k * TickMs : k \in 0..MaxTicks}

\* task ids: `task_${Date.now()}_${random}`
generateTaskId(t, r) == [ts |-> t, rnd |-> r]
NoToken == [ts |-> -1, rnd |-> <<"missing", 0>>]
ForeignToken == [ts |-> -1, rnd |-> <<"foreign", 0>>]
\* a callbackToken that is no string but a JSON object with members named
\* toString and valueOf, for instance {"toString": 1, "valueOf": 1}: it is
\* truthy, no key of the map, and its conversion to a string throws TypeError
UnprintableToken == [ts |-> -1, rnd |-> <<"unprintable", 0>>]
TaskIds == {generateTaskId(t, r) : t \in ClockValues, r \in RandomSuffixes}

NoId == <<"none", 0>>
\* the invocation handed over by the front door: channel_id and member.user.id
Invocation(i) == [channel_id |-> <<"channel", i>>, userId |-> <<"user", i>>]
\* the id Discord gives the message that invocation i posts through the webhook
MessageIdOf(i) == <<"message", i>>

NoCtx == [channelId |-> NoId, messageId |-> NoId, userId |-> NoId, startTime |-> -1]

VARIABLES
    now,         \* Date.now(), in ms
    urlSet,      \* REMOTE_SERVICE_URL is configured
    taskStatus,  \* the Map taskId -> { channelId, messageId, userId, startTime }
    disp,        \* per slot: a handleRemoteTaskCommand in flight, or idle
    cb,          \* per slot: a handleRemoteServiceCallback in flight, or idle
    started,     \* handler invocations so far
    hist,        \* per task id: the last store operation applied to it
    last,        \* the handler return of the step just taken, if it was one
    req,         \* a call of DiscordRequest: its position, attempts and waits
    dl,          \* a call of downloadFile: its position and the destination file
    fn           \* the choice of the local file name for a download

bridge == <<now, urlSet, taskStatus, disp, cb, started, hist, last>>
vars == <<now, urlSet, taskStatus, disp, cb, started, hist, last, req, dl, fn>>

\* ------------------------------------------------------------- the store
MapSetAlone(ts, t, ctx) == [x \in {t} |-> ctx]
MapSet(ts, t, ctx) == [x \in DOMAIN ts \cup {t} |-> IF x = t THEN ctx ELSE ts[x]]
MapDelete(ts, t) == [x \in DOMAIN ts \ {t} |-> ts[x]]
MapHas(ts, t) == t \in DOMAIN ts

\* lines 612-614: taskStatus.get(taskId) || null
getTaskStatus(ts, t) == IF MapHas(ts, t) THEN ts[t] ELSE NoCtx

\* lines 619-629: cleanupExpiredTasks at time n
ExpiredAtOrAfter(info, n) == n - info.startTime >= expireTime
Expired(info, n) == n - info.startTime > expireTime
cleanupExpiredTasks(ts, n) ==
    [x \in {y \in DOMAIN ts : ~Expired(ts[y], n)} |-> ts[x]]

\* ------------------------------------------------------------- history
\* hist[t] is the last store operation on t as its caller performed it:
\* "never", "put" (with the context put), "deleted", "swept" (a sweep that ran
\* when the context was older than 24 hours).
NoHist == [op |-> "never", ctx |-> NoCtx]
HistPut(h, t, ctx) == [h EXCEPT ![t] = [op |-> "put", ctx |-> ctx]]
HistDelete(h, t) == [h EXCEPT ![t] = [op |-> "deleted", ctx |-> NoCtx]]
HistSweep(h, n) ==
    [t \in DOMAIN h |->
        IF h[t].op = "put" /\ n - h[t].ctx.startTime > 24 * HourMs
        THEN [op |-> "swept", ctx |-> NoCtx]
        ELSE h[t]]

NoLast == [handler |-> "none"]
DispatchReturned(r) == [handler |-> "dispatch", d |-> r]
CallbackReturned(r) == [handler |-> "callback", c |-> r]

\* ------------------------------------------------------------- dispatch
\* handleRemoteTaskCommand.  pc: "idle" (no invocation in this slot),
\* "trigger" (awaiting triggerRemoteTask), "started" (awaiting the post of the
\* task-started message), "result" (awaiting the post of response.message),
\* "error" (awaiting the post of the failure notice in the catch block),
\* "done" (returned; kept in last only).
\* calls: the acknowledgment and the executor call, in the order issued;
\* msgs: the posts to the conversation that have returned or thrown;
\* stored: calls of taskStatus.set; caught: the catch block was entered;
\* executor: how triggerRemoteTask ended ("none" while it has not).
IdleDispatch ==
    [pc |-> "idle", id |-> 0, taskId |-> NoToken, calls |-> <<>>,
     msgs |-> <<>>, stored |-> 0, caught |-> FALSE, executor |-> "none"]

\* lines 408-410: res.send({ type: DEFERRED_CHANNEL_MESSAGE_WITH_SOURCE })
SkipAck(r) == r
SendAck(r) == [r EXCEPT !.calls = Append(@, "ack")]
\* line 231: the fetch of REMOTE_SERVICE_URL + '/api/discord/create-task'
CallExecutor(r) == [r EXCEPT !.pc = "trigger", !.calls = Append(@, "createTask")]

\* lines 492-504: the catch block starts posting the failure notice
CatchAndRespondAgain(r) ==
    [r EXCEPT !.pc = "error", !.caught = TRUE, !.calls = Append(@, "ack")]
CatchDispatch(r) == [r EXCEPT !.pc = "error", !.caught = TRUE]

\* a post through the interaction webhook that has returned or thrown: the
\* message is in the conversation when Discord answered 2xx
WebhookOutcomes == {"ok", "okNoJson", "non2xx", "threw"}
Posted(r, kind, outcome) ==
    [r EXCEPT !.msgs = Append(@, [kind |-> kind,
                                  posted |-> outcome \in {"ok", "okNoJson"}])]

\* lines 452-457 and 484-489: the context that is stored
ContextWithoutMessageId(i, n) ==
    [channelId |-> Invocation(i).channel_id, messageId |-> NoId,
     userId |-> Invocation(i).userId, startTime |-> n]
NewContext(i, n) ==
    [channelId |-> Invocation(i).channel_id, messageId |-> MessageIdOf(i),
     userId |-> Invocation(i).userId, startTime |-> n]

\* Math.random().toString(36).substr(2, 9): a suffix no task id generated in
\* this millisecond carries (that of invocation i stands for all of them), or
\* the suffix of a task id that was generated in this very millisecond
RandomDraws(i) ==
    {<<"r", i>>}
    \cup {disp[s].taskId.rnd : s \in {x \in Slots : disp[x].pc # "idle"
                                                   /\ disp[x].taskId.ts = now}}
    \cup {t.rnd : t \in {x \in DOMAIN hist : hist[x].op # "never" /\ x.ts = now}}

LowestIdle(f, s) == f[s].pc = "idle" /\ \A s2 \in 1..(s - 1) : f[s2].pc # "idle"

\* lines 391-413: generate the task id, acknowledge, call triggerRemoteTask
\* (which throws before its fetch when REMOTE_SERVICE_URL is not set)
DispatchBegin(i, t, r) ==
    LET r0 == [IdleDispatch EXCEPT !.id = i, !.taskId = generateTaskId(t, r)]
        r1 == SendAck(r0)
    IN  IF urlSet THEN CallExecutor(r1) ELSE CatchDispatch(r1)

DispatchReceive(s, budget) ==
    /\ LowestIdle(disp, s)
    /\ started < budget
    /\ started' = started + 1
    /\ \E r \in RandomDraws(started + 1) :
         disp' = [disp EXCEPT ![s] = DispatchBegin(started + 1, now, r)]
    /\ last' = NoLast
    /\ UNCHANGED <<req, dl, fn, now, urlSet, taskStatus, cb, hist>>

\* lines 231-250: the one fetch of triggerRemoteTask has ended.  It threw
\* ("transport": reset, timeout, DNS failure), or the response was not ok or
\* its body unreadable ("http"), and triggerRemoteTask rethrows; or the
\* response is returned, with status 'success' or with another status
ExecutorOutcomes == {"success", "other", "http", "transport"}

\* lines 413-445 and 469-480: triggerRemoteTask returns or throws; with
\* status 'success' the task counts as started (response.message is not read),
\* with any other status response.message is posted
TriggerReturn(s) ==
    /\ disp[s].pc = "trigger"
    /\ \E outcome \in ExecutorOutcomes :
         LET r1 == [disp[s] EXCEPT !.executor = outcome]
         IN  disp' = [disp EXCEPT ![s] =
                         CASE outcome \in {"http", "transport"} -> CatchDispatch(r1)
                           [] outcome = "success" -> [r1 EXCEPT !.pc = "started"]
                           [] OTHER -> [r1 EXCEPT !.pc = "result"]]
    /\ last' = NoLast
    /\ UNCHANGED <<req, dl, fn, now, urlSet, taskStatus, cb, started, hist>>

\* lines 447-468: the post of the task-started message returns or throws
StartedPostReturn(s) ==
    /\ disp[s].pc = "started"
    /\ \E outcome \in WebhookOutcomes :
         LET r1 == Posted(disp[s], "started", outcome)
             ctx == NewContext(r1.id, now)
             r2 == [r1 EXCEPT !.pc = "done", !.stored = @ + 1]
         IN  IF outcome = "ok"
             THEN /\ taskStatus' = MapSet(taskStatus, r1.taskId, ctx)
                  /\ hist' = HistPut(hist, r1.taskId, ctx)
                  /\ disp' = [disp EXCEPT ![s] = IdleDispatch]
                  /\ last' = DispatchReturned(r2)
             ELSE /\ disp' = [disp EXCEPT ![s] = CatchDispatch(r1)]
                  /\ last' = NoLast
                  /\ UNCHANGED <<taskStatus, hist>>
    /\ UNCHANGED <<req, dl, fn, now, urlSet, cb, started>>

\* lines 482-491: the post of response.message returns or throws; a response
\* that is not ok is not looked at any further
ResultPostReturn(s) ==
    /\ disp[s].pc = "result"
    /\ \E outcome \in WebhookOutcomes :
         LET r1 == Posted(disp[s], "result", outcome)
             ctx == NewContext(r1.id, now)
         IN  CASE outcome = "ok" ->
                  /\ taskStatus' = MapSet(taskStatus, r1.taskId, ctx)
                  /\ hist' = HistPut(hist, r1.taskId, ctx)
                  /\ disp' = [disp EXCEPT ![s] = IdleDispatch]
                  /\ last' = DispatchReturned([r1 EXCEPT !.pc = "done",
                                                         !.stored = @ + 1])
               [] outcome = "non2xx" ->
                  /\ disp' = [disp EXCEPT ![s] = IdleDispatch]
                  /\ last' = DispatchReturned([r1 EXCEPT !.pc = "done"])
                  /\ UNCHANGED <<taskStatus, hist>>
               [] OTHER ->
                  /\ disp' = [disp EXCEPT ![s] = CatchDispatch(r1)]
                  /\ last' = NoLast
                  /\ UNCHANGED <<taskStatus, hist>>
    /\ UNCHANGED <<req, dl, fn, now, urlSet, cb, started>>

\* lines 495-510: the post of the failure notice returns (its response is not
\* inspected) or throws (logged); the handler returns { taskId }
ErrorNoticeReturn(s) ==
    /\ disp[s].pc = "error"
    /\ \E outcome \in {"ok", "threw"} :
         last' = DispatchReturned([Posted(disp[s], "error", outcome)
                                      EXCEPT !.pc = "done"])
    /\ disp' = [disp EXCEPT ![s] = IdleDispatch]
    /\ UNCHANGED <<req, dl, fn, now, urlSet, taskStatus, cb, started, hist>>

\* ------------------------------------------------------------ reconcile
\* handleRemoteServiceCallback and sendTaskCallbackToDiscord.  pc: "idle",
\* "fileExists" (awaiting fileExists(filePath)), "download" (awaiting
\* downloadFile), "primary" (awaiting the first send of
\* sendTaskCallbackToDiscord), "fallback" (awaiting the text-only send of its
\* catch block), "done" (returned; kept in last only).
\* pending: the message of the send in flight; sent: the message a send put
\* into the channel; downloads: calls of downloadFile; result: the second
\* argument of sendTaskCallbackToDiscord ("none" while it was not called).
\* A content has the kind of its wording, the user it mentions, the elapsed
\* time it states, and detail: the result text it quotes ("none": no part of
\* result is in the message).
UndefinedContent ==
    [kind |-> "undefined", userId |-> NoId, elapsed |-> -1, detail |-> "none"]
NoMsg == [attach |-> FALSE, channelId |-> NoId, replyTo |-> NoId,
          content |-> UndefinedContent]
IdleCallback ==
    [pc |-> "idle", token |-> NoToken, status |-> "none", filePath |-> "none",
     data |-> "none", message |-> "none", pending |-> NoMsg, sent |-> NoMsg,
     downloads |-> 0, result |-> "none", outcome |-> "none"]

\* the callback bodies the executor (or anyone else) can post: status
\* 'success', 'failed' or anything else (also none); filePath given or not;
\* data carrying a download URL ("url": a string, or an object with url or
\* downloadUrl), the path of a file on the bridge's disk ("path") or neither
\* ("none": no data field, or one without url and downloadUrl, lines 571-580
\* treat the two alike); message (read for status 'failed') given or not
PayloadShapes ==
    {[status |-> "failed", filePath |-> "none", data |-> "none", message |-> m] :
        m \in {"given", "none"}}
    \cup {[status |-> "success", filePath |-> "none", data |-> d, message |-> "none"] :
        d \in {"none", "path", "url"}}
    \cup {[status |-> "success", filePath |-> "given", data |-> d, message |-> "none"] :
        d \in {"none", "url"}}
    \cup {[status |-> "other", filePath |-> "none", data |-> "none", message |-> "none"]}
\* one payload for every path through handleRemoteServiceCallback: those
\* that leave out the fields the path taken does not read (data when there is
\* no filePath, lines 542-545; message, which only goes into result)
PathPayloads == {p \in PayloadShapes : p.message = "none" /\ (p.filePath = "none" => p.data = "none")}

\* the task ids a callback can carry: those handed to the executor and still
\* known to the model, a task id the bridge never generated, or none at all
CallbackTokens ==
    {disp[s].taskId : s \in {x \in Slots : disp[x].pc \in {"trigger", "started", "result"}}}
    \cup {t \in DOMAIN hist : hist[t].op # "never"}
    \cup {ForeignToken, NoToken, UnprintableToken}

\* line 526: if (!callbackToken)
TokenMissing(token) == token = NoToken
\* lines 534 and 595: `Task ${callbackToken} ...` converts the token to a string
Printable(token) == token # UnprintableToken
\* lines 532-533: taskStatus.get(callbackToken); if (!taskInfo)
AlwaysKnown(ts, token) == TRUE
CallbackTaskKnown(ts, token) == MapHas(ts, token)
\* lines 334-335: taskStatus.get(taskId); if (!taskInfo)
SendTaskKnown(ts, token) == MapHas(ts, token)

Return(r, outcome) == [r EXCEPT !.pc = "done", !.outcome = outcome, !.pending = NoMsg]
\* an exception leaves handleRemoteServiceCallback
Raise(r) == Return(r, "raised")

\* lines 346-348: 'Video generation failed.' and the elapsed time; result is
\* not part of the text
FailedContent(info, n) ==
    [kind |-> "failed", userId |-> info.userId, elapsed |-> n - info.startTime,
     detail |-> "none"]
\* lines 360-362: 'Your task is done.' and the time spent
DoneContent(info, n) ==
    [kind |-> "done", userId |-> info.userId, elapsed |-> n - info.startTime,
     detail |-> "none"]

\* lines 333-365, up to the first await of sendTaskCallbackToDiscord.
\* result is an error text or object (ErrorResults, with isError), a path
\* ("filePath": that of the callback, "localPath": that of the download) or
\* "undefined" (no filePath in the callback: result.trim() throws, and the
\* catch block starts the text-only send with content still undefined).
ErrorResults ==
    {"payloadMessage", "defaultFailure", "notFoundText", "linkExpiredText",
     "downloadFailedText"}
\* lines 334 and 340: taskInfo = taskStatus.get(taskId), from which channelId,
\* messageId and userId are taken
AnyTaskInfo(ts, token) == ts[CHOOSE t \in DOMAIN ts : TRUE]
TaskInfoOf(ts, token) == getTaskStatus(ts, token)
SendStart(r0, ts, n, result, isError) ==
    LET r == [r0 EXCEPT !.result = result]
    IN
    IF ~SendTaskKnown(ts, r.token)
    THEN Return(r, "noTaskInfo")
    ELSE LET info == TaskInfoOf(ts, r.token)
         IN  CASE isError ->
                  [r EXCEPT !.pc = "primary",
                            !.pending = [attach |-> FALSE, channelId |-> info.channelId,
                                         replyTo |-> info.messageId,
                                         content |-> FailedContent(info, n)]]
               [] ~isError /\ result = "undefined" ->
                  [r EXCEPT !.pc = "fallback",
                            !.pending = [attach |-> FALSE, channelId |-> info.channelId,
                                         replyTo |-> NoId,
                                         content |-> UndefinedContent]]
               [] OTHER ->
                  [r EXCEPT !.pc = "primary",
                            !.pending = [attach |-> TRUE, channelId |-> info.channelId,
                                         replyTo |-> info.messageId,
                                         content |-> DoneContent(info, n)]]

\* line 592: error || { message: 'Task execution failed' }
FailureOf(r) == IF r.message = "given" THEN "payloadMessage" ELSE "defaultFailure"

\* lines 517-597, up to the first await of handleRemoteServiceCallback
MissingStatusIsSuccess(r, ts, n) ==
    CASE TokenMissing(r.token) -> Return(r, "missingToken")
      [] ~TokenMissing(r.token) /\ ~CallbackTaskKnown(ts, r.token) ->
            IF Printable(r.token) THEN Return(r, "unknown") ELSE Raise(r)
      [] OTHER ->
            CASE r.status \in {"success", "other"} /\ r.filePath = "given" ->
                    [r EXCEPT !.pc = "fileExists"]
              [] r.status \in {"success", "other"} /\ r.filePath # "given" ->
                    SendStart(r, ts, n, "undefined", FALSE)
              [] OTHER -> SendStart(r, ts, n, FailureOf(r), TRUE)
CallbackStart(r, ts, n) ==
    CASE TokenMissing(r.token) -> Return(r, "missingToken")
      [] ~TokenMissing(r.token) /\ ~CallbackTaskKnown(ts, r.token) ->
            IF Printable(r.token) THEN Return(r, "unknown") ELSE Raise(r)
      [] OTHER ->
            CASE r.status = "success" /\ r.filePath = "given" ->
                    [r EXCEPT !.pc = "fileExists"]
              [] r.status = "success" /\ r.filePath # "given" ->
                    SendStart(r, ts, n, "undefined", FALSE)
              [] r.status = "failed" -> SendStart(r, ts, n, FailureOf(r), TRUE)
              [] OTHER -> Return(r, "otherStatus")

\* app.post('/api/discord/ppt-callback'): the status of the answer to the
\* executor when handleRemoteServiceCallback has returned or thrown
EndpointStatus(r) == IF r.outcome = "raised" THEN 500 ELSE 200

\* a step of the handler in slot s that leaves it at r: it goes on, or it has
\* returned and the slot is idle again
CallbackStep(s, r) ==
    IF r.pc = "done"
    THEN /\ cb' = [cb EXCEPT ![s] = IdleCallback]
         /\ last' = CallbackReturned(r)
    ELSE /\ cb' = [cb EXCEPT ![s] = r]
         /\ last' = NoLast

CallbackReceive(s, budget, shapes) ==
    /\ LowestIdle(cb, s)
    /\ started < budget
    /\ started' = started + 1
    /\ \E token \in CallbackTokens, shape \in shapes :
         CallbackStep(s, CallbackStart([IdleCallback EXCEPT
                                           !.token = token,
                                           !.status = shape.status,
                                           !.filePath = shape.filePath,
                                           !.data = shape.data,
                                           !.message = shape.message],
                                       taskStatus, now))
    /\ UNCHANGED <<req, dl, fn, now, urlSet, taskStatus, disp, hist>>

\* lines 542-584: fileExists(filePath) has answered
SkipDownload(r) == [r EXCEPT !.pc = "download"]
StartDownload(r) == [r EXCEPT !.pc = "download", !.downloads = @ + 1]
FileExistsReturn(s) ==
    /\ cb[s].pc = "fileExists"
    /\ \E exists \in BOOLEAN :
         CallbackStep(s,
             CASE exists -> SendStart(cb[s], taskStatus, now, "filePath", FALSE)
               [] ~exists /\ cb[s].data = "url" -> StartDownload(cb[s])
               [] OTHER -> SendStart(cb[s], taskStatus, now, "notFoundText", TRUE))
    /\ UNCHANGED <<req, dl, fn, now, urlSet, taskStatus, disp, started, hist>>

\* lines 570, 584-590: downloadFile has returned the local path, or thrown
\* the error of lines 280-283 ("linkExpired") or another error ("failed"); the
\* catch block passes '❌ Failed to download file: ' and the message of the
\* error on as result
DownloadOutcomes == {"ok", "linkExpired", "failed"}
DownloadReturn(s) ==
    /\ cb[s].pc = "download"
    /\ \E o \in DownloadOutcomes :
         CallbackStep(s,
             CASE o = "ok" -> SendStart(cb[s], taskStatus, now, "localPath", FALSE)
               [] o = "linkExpired" ->
                    SendStart(cb[s], taskStatus, now, "linkExpiredText", TRUE)
               [] OTHER ->
                    SendStart(cb[s], taskStatus, now, "downloadFailedText", TRUE))
    /\ UNCHANGED <<req, dl, fn, now, urlSet, taskStatus, disp, started, hist>>

\* a send that has returned (the message is in the channel) or thrown
Sent(r, ok) == IF ok THEN [r EXCEPT !.sent = r.pending] ELSE r

\* line 367: taskStatus.delete(taskId) after the first send
KeepAfterSend(ts, token) == ts
DeleteAfterPrimary(ts, token) == MapDelete(ts, token)
\* line 378: taskStatus.delete(taskId) after the text-only send
DeleteAfterFallback(ts, token) == MapDelete(ts, token)

\* lines 368-377: the catch block sends content alone, with no attachment and
\* no message_reference
FallbackWithAttachment(r) == [r EXCEPT !.pc = "fallback"]
RetryPrimary(r) == [r EXCEPT !.pc = "primary", !.pending.replyTo = NoId]
StartFallback(r) ==
    [r EXCEPT !.pc = "fallback",
              !.pending = [attach |-> FALSE, channelId |-> r.pending.channelId,
                           replyTo |-> NoId, content |-> r.pending.content]]

\* lines 349-367: the first send (DiscordRequest for an error text,
\* sendDiscordMessageWithFile for a file) has returned or thrown
PrimaryReturn(s) ==
    /\ cb[s].pc = "primary"
    /\ \E ok \in BOOLEAN :
         LET r1 == Sent(cb[s], ok)
         IN  IF ok
             THEN /\ taskStatus' = DeleteAfterPrimary(taskStatus, r1.token)
                  /\ hist' = HistDelete(hist, r1.token)
                  /\ CallbackStep(s, Return(r1, "delivered"))
             ELSE /\ CallbackStep(s, StartFallback(r1))
                  /\ UNCHANGED <<taskStatus, hist>>
    /\ UNCHANGED <<req, dl, fn, now, urlSet, disp, started>>

\* lines 371-382: the text-only send has returned or thrown
FallbackReturn(s) ==
    /\ cb[s].pc = "fallback"
    /\ \E ok \in BOOLEAN :
         LET r1 == Sent(cb[s], ok)
         IN  IF ok
             THEN /\ taskStatus' = DeleteAfterFallback(taskStatus, r1.token)
                  /\ hist' = HistDelete(hist, r1.token)
                  /\ CallbackStep(s, Return(r1, "textOnly"))
             ELSE /\ CallbackStep(s, Return(r1, "undelivered"))
                  /\ UNCHANGED <<taskStatus, hist>>
    /\ UNCHANGED <<req, dl, fn, now, urlSet, disp, started>>

\* ------------------------------------------------- the resilient request
\* DiscordRequest(endpoint, options, retries = 3) of utils.js.  pc: "idle"
\* (not called yet), "fetch" (awaiting fetch, lines 45-53), "sleep" (awaiting
\* the delay, line 86), "returned", "thrown".
\* log: the attempts made and the delays waited, in order; error: the error
\* the catch block holds (line 74), thrown to the caller at "thrown"; result:
\* what was returned.  An error has the code and name of the error object,
\* fetchFailed (its message contains 'fetch failed'), the status and the body
\* it carries, and seen: the status of the response it was made for.
NoError ==
    [at |-> 0, code |-> "none", name |-> "none", fetchFailed |-> FALSE,
     seen |-> "none", status |-> "none", body |-> "none"]
NoResult == [kind |-> "none", at |-> 0]
IdleRequest(retries) ==
    [pc |-> "idle", retries |-> retries, attempt |-> 0, log |-> <<>>,
     error |-> NoError, result |-> NoResult]
AttemptEvent(k) == [ev |-> "attempt", n |-> k, ms |-> 0]
WaitEvent(k, ms) == [ev |-> "wait", n |-> k, ms |-> ms]

\* what the await of fetch can end in: a response, 2xx or not (its body JSON,
\* JSON whose text contains 'fetch failed', or no JSON at all), or an error
\* thrown by fetch: one with a code, the AbortError of the 30 s timer (line
\* 40), undici's TypeError 'fetch failed', or any other error
FetchOutcomes ==
    {[kind |-> "response", status |-> "2xx", body |-> "json"]}
    \cup {[kind |-> "response", status |-> "non2xx", body |-> b] :
             b \in {"json", "jsonFetchFailed", "notJson"}}
    \cup {[kind |-> "throw", code |-> c, name |-> "Error", fetchFailed |-> FALSE] :
             c \in {"ECONNRESET", "ETIMEDOUT", "ENOTFOUND", "ECONNREFUSED"}}
    \cup {[kind |-> "throw", code |-> "none", name |-> "AbortError", fetchFailed |-> FALSE],
          [kind |-> "throw", code |-> "none", name |-> "TypeError", fetchFailed |-> TRUE],
          [kind |-> "throw", code |-> "none", name |-> "TypeError", fetchFailed |-> FALSE]}

\* lines 58-71 and 74: the error the catch block sees at attempt k.  For a
\* response that is not ok it is new Error(JSON.stringify(data)), whose message
\* is the text of the body (the status is logged, not put into the error), or
\* the SyntaxError of res.json() when the body is no JSON
ErrorOf(o, k) ==
    CASE o.kind = "throw" ->
            [at |-> k, code |-> o.code, name |-> o.name, fetchFailed |-> o.fetchFailed,
             seen |-> "none", status |-> "none", body |-> "none"]
      [] o.kind = "response" /\ o.body = "notJson" ->
            [at |-> k, code |-> "none", name |-> "SyntaxError", fetchFailed |-> FALSE,
             seen |-> o.status, status |-> "none", body |-> "none"]
      [] OTHER ->
            [at |-> k, code |-> "none", name |-> "Error",
             fetchFailed |-> (o.body = "jsonFetchFailed"),
             seen |-> o.status, status |-> "none", body |-> o.body]

\* lines 76-81
isRetryableError(error) ==
    \/ error.code = "ECONNRESET"
    \/ error.code = "ETIMEDOUT"
    \/ error.code = "ENOTFOUND"
    \/ error.name = "AbortError"
    \/ error.fetchFailed

\* line 83: isRetryableError && attempt < retries
RetryAfterLast(error, attempt, retries) == isRetryableError(error) /\ attempt <= retries
RetryAnyError(error, attempt, retries) == attempt < retries
ShouldRetry(error, attempt, retries) == isRetryableError(error) /\ attempt < retries

\* line 84: Math.min(1000 * Math.pow(2, attempt - 1), 10000)
Min(a, b) == IF a <= b THEN a ELSE b
UncappedDelay(attempt) == BaseDelayMs * 2^(attempt - 1)
delay(attempt) == Min(BaseDelayMs * 2^(attempt - 1), MaxDelayMs)

\* line 36: the loop test attempt <= retries, at the first or a further round
LoopRound(r, k) ==
    IF k <= r.retries
    THEN [r EXCEPT !.pc = "fetch", !.attempt = k, !.error = NoError,
                   !.log = Append(@, AttemptEvent(k))]
    ELSE [r EXCEPT !.pc = "returned", !.error = NoError,
                   !.result = [kind |-> "undefined", at |-> 0]]

\* lines 22-45: the call, up to the first await
RequestBegin ==
    /\ req.pc = "idle"
    /\ req' = LoopRound(req, 1)
    /\ UNCHANGED <<bridge, dl, fn>>

\* lines 45-91: fetch has answered or thrown
FetchReturn ==
    /\ req.pc = "fetch"
    /\ \E o \in FetchOutcomes :
         LET k == req.attempt
             error == ErrorOf(o, k)
         IN  req' = CASE o.kind = "response" /\ o.status = "2xx" ->
                         [req EXCEPT !.pc = "returned",
                                     !.result = [kind |-> "response", at |-> k]]
                      [] ~(o.kind = "response" /\ o.status = "2xx")
                            /\ ShouldRetry(error, k, req.retries) ->
                         [req EXCEPT !.pc = "sleep", !.error = error,
                                     !.log = Append(@, WaitEvent(k, delay(k)))]
                      [] OTHER ->
                         [req EXCEPT !.pc = "thrown", !.error = error]
    /\ UNCHANGED <<bridge, dl, fn>>

\* lines 86-87 and 36: the delay is over; continue with the next round
SleepReturn ==
    /\ req.pc = "sleep"
    /\ req' = LoopRound(req, req.attempt + 1)
    /\ UNCHANGED <<bridge, dl, fn>>

\* -------------------------------------------------- the artifact download
\* downloadFile(url, localPath).  pc: "idle" (not called yet), "fetch"
\* (awaiting fetch, line 267), "text" (awaiting response.text() of a response
\* that is not ok, line 275), "mkdir" (line 291), "pipeline" (awaiting the
\* stream to disk, lines 294-295), "unlink" (awaiting fs.unlink in the catch
\* block, line 304), "returned", "thrown".
\* file: what is at localPath ("none", "old": a file an earlier download left
\* there, "partial", "complete"); dir: the directory of localPath exists;
\* status: the response status; body: the
\* text of a response that is not ok; error: the error the catch block holds
\* (line 300); cleanup: how fs.unlink ended; raised: the error thrown to the
\* caller; calls: the calls made, in order.
IdleDownload(file, dir) ==
    [pc |-> "idle", file |-> file, dir |-> dir, status |-> "none", body |-> "none",
     error |-> "none", cleanup |-> "none", raised |-> "none", calls |-> <<>>]

\* lines 300-304: the catch block calls fs.unlink(localPath)
Catch(r, error) ==
    [r EXCEPT !.pc = "unlink", !.error = error, !.calls = Append(@, "unlink")]

\* lines 259-273: the call, up to the first await
DownloadBegin ==
    /\ dl.pc = "idle"
    /\ dl' = [dl EXCEPT !.pc = "fetch", !.calls = Append(@, "fetch")]
    /\ UNCHANGED <<bridge, req, fn>>

\* lines 267-275 and 289-291: fetch has answered (2xx, 530 or another status)
\* or thrown (a network error, or the AbortError of the 10 min timer, line 261)
DownloadFetchReturn ==
    /\ dl.pc = "fetch"
    /\ \/ \E status \in {"530", "non2xx"} :
            dl' = [dl EXCEPT !.pc = "text", !.status = status]
       \/ dl' = [dl EXCEPT !.pc = "mkdir", !.status = "2xx",
                            !.calls = Append(@, "mkdir")]
       \/ \E error \in {"network", "dns", "abort"} : dl' = Catch(dl, error)
    /\ UNCHANGED <<bridge, req, fn>>

\* lines 278-280: errorText.includes('Cloudflare') ||
\* errorText.includes('cf-error-details') || response.status === 530
isCloudflareError(body, status) ==
    \/ body = "Cloudflare"
    \/ body = "cf-error-details"
    \/ status = "530"

\* lines 275-286: the body of the response that is not ok has been read (a
\* page with one of the two markers, any other text, or '' when reading
\* failed)
ErrorTextReturn ==
    /\ dl.pc = "text"
    /\ \E body \in {"Cloudflare", "cf-error-details", "other", "unreadable"} :
         dl' = Catch([dl EXCEPT !.body = body],
                     IF isCloudflareError(body, dl.status)
                     THEN "linkExpired" ELSE "http")
    /\ UNCHANGED <<bridge, req, fn>>

\* lines 291-295: fs.mkdir(dir, { recursive: true }) has returned (the
\* directory exists now) or thrown; createWriteStream
MkdirReturn ==
    /\ dl.pc = "mkdir"
    /\ \/ dl' = [dl EXCEPT !.pc = "pipeline", !.dir = TRUE,
                            !.calls = Append(@, "write")]
       \/ dl' = Catch(dl, "mkdir")
    /\ UNCHANGED <<bridge, req, fn>>

\* lines 294-299: pipeline(response.body, fileStream) has ended: the file is
\* written; or the file could not be opened (what was at localPath is still
\* there); or the stream broke after the file was opened and truncated (the
\* connection was reset, the disk is full, the 10 min timer fired)
PipelineReturn ==
    /\ dl.pc = "pipeline"
    /\ \/ dl' = [dl EXCEPT !.pc = "returned", !.file = "complete"]
       \/ dl' = Catch(dl, "open")
       \/ \E error \in {"stream", "diskFull", "abort"} :
            dl' = Catch([dl EXCEPT !.file = "partial"], error)
    /\ UNCHANGED <<bridge, req, fn>>

\* line 304: fs.unlink(localPath).catch(() => {}) has ended: the file is
\* removed; or there was none (ENOENT); or the file could not be removed
\* (EPERM, EBUSY, EACCES, ...) and is still there.  The error is swallowed
UnlinkOutcomes(file) == IF file = "none" THEN {"absent"} ELSE {"removed", "failed"}
CleanupSkipped(r, outcome) == r
Cleanup(r, outcome) ==
    [r EXCEPT !.cleanup = outcome,
              !.file = IF outcome = "removed" THEN "none" ELSE @]

\* lines 304-309: after the cleanup the error of the catch block is thrown
UnlinkReturn ==
    /\ dl.pc = "unlink"
    /\ \E outcome \in UnlinkOutcomes(dl.file) :
         LET r == Cleanup(dl, outcome)
         IN  dl' = [r EXCEPT !.pc = "thrown", !.raised = r.error]
    /\ UNCHANGED <<bridge, req, fn>>

\* ------------------------------------------------- the legacy reconcile
\* handleRemoteServiceCallback and sendTaskCallbackToDiscord of the earlier
\* remote-bridge.js.  There the result is callbackData.data and is quoted in
\* the message (detail); no file is looked for, downloaded or attached.
\* status "none": no status field, or an empty one (line 344: else if (status))
LegacyPayloads ==
    {[status |-> "failed", filePath |-> "none", data |-> "none", message |-> m] :
        m \in {"given", "none"}}
    \cup {[status |-> st, filePath |-> "none", data |-> d, message |-> "none"] :
        st \in {"success", "other", "none"}, d \in {"given", "none"}}

\* lines 127-157, up to the first await: the content is composed before the
\* try block; without data JSON.stringify(undefined) is undefined and
\* resultText.length throws
LegacySendStart(r0, ts, n, result, isError) ==
    LET r == [r0 EXCEPT !.result = result]
    IN
    IF ~SendTaskKnown(ts, r.token)
    THEN Return(r, "noTaskInfo")
    ELSE LET info == TaskInfoOf(ts, r.token)
         IN  IF ~isError /\ result = "undefined"
             THEN Raise(r)
             ELSE [r EXCEPT !.pc = "primary",
                            !.pending =
                                [attach |-> FALSE, channelId |-> info.channelId,
                                 replyTo |-> info.messageId,
                                 content |-> [kind |-> IF isError THEN "failed" ELSE "done",
                                              userId |-> info.userId,
                                              elapsed |-> n - info.startTime,
                                              detail |-> result]]]

\* line 321: const result = callbackData.data
LegacyResultOf(r) == IF r.data = "given" THEN "data" ELSE "undefined"

\* lines 317-349, up to the first await
LegacyCallbackStart(r, ts, n) ==
    CASE TokenMissing(r.token) -> Return(r, "missingToken")
      [] ~TokenMissing(r.token) /\ ~CallbackTaskKnown(ts, r.token) ->
            IF Printable(r.token) THEN Return(r, "unknown") ELSE Raise(r)
      [] OTHER ->
            CASE r.status = "success" -> LegacySendStart(r, ts, n, LegacyResultOf(r), FALSE)
              [] r.status = "failed" -> LegacySendStart(r, ts, n, FailureOf(r), TRUE)
              [] r.status = "other" -> Return(r, "otherStatus")
              [] OTHER -> LegacySendStart(r, ts, n, LegacyResultOf(r), FALSE)

LegacyCallbackReceive(s, budget) ==
    /\ LowestIdle(cb, s)
    /\ started < budget
    /\ started' = started + 1
    /\ \E token \in CallbackTokens, shape \in LegacyPayloads :
         CallbackStep(s, LegacyCallbackStart([IdleCallback EXCEPT
                                                 !.token = token,
                                                 !.status = shape.status,
                                                 !.data = shape.data,
                                                 !.message = shape.message],
                                             taskStatus, now))
    /\ UNCHANGED <<req, dl, fn, now, urlSet, taskStatus, disp, hist>>

\* lines 159-182: the send that replies to the task-started message has
\* returned or thrown; taskStatus.delete after it
LegacyPrimaryReturn(s) ==
    /\ cb[s].pc = "primary"
    /\ \E ok \in BOOLEAN :
         LET r1 == Sent(cb[s], ok)
         IN  IF ok
             THEN /\ taskStatus' = MapDelete(taskStatus, r1.token)
                  /\ hist' = HistDelete(hist, r1.token)
                  /\ CallbackStep(s, Return(r1, "delivered"))
             ELSE /\ CallbackStep(s, StartFallback(r1))
                  /\ UNCHANGED <<taskStatus, hist>>
    /\ UNCHANGED <<req, dl, fn, now, urlSet, disp, started>>

\* lines 183-197: the send without the reply reference has returned or thrown
LegacyFallbackReturn(s) ==
    /\ cb[s].pc = "fallback"
    /\ \E ok \in BOOLEAN :
         LET r1 == Sent(cb[s], ok)
         IN  IF ok
             THEN /\ taskStatus' = MapDelete(taskStatus, r1.token)
                  /\ hist' = HistDelete(hist, r1.token)
                  /\ CallbackStep(s, Return(r1, "textOnly"))
             ELSE /\ CallbackStep(s, Return(r1, "undelivered"))
                  /\ UNCHANGED <<taskStatus, hist>>
    /\ UNCHANGED <<req, dl, fn, now, urlSet, disp, started>>

\* ------------------------------------------------- the local file name
\* lines 549-567 of handleRemoteServiceCallback: the name and the place of
\* the file a download is written to.  Strings are sequences of characters;
\* "a" stands for any character that is no dot, slash, backslash or question
\* mark.  A place is the sequence of directory and file names below
\* process.cwd(), as path.join leaves it.
PathChars == {"a", ".", "/", "\\"}
UrlChars == {"a", ".", "/", "?"}
StringsOver(chars, n) == UNION {[1..k -> chars] : k \in 0..n}

\* line 555: filePath.replace(/\\/g, '/')
ReplaceBackslashes(p) == [i \in DOMAIN p |-> IF p[i] = "\\" THEN "/" ELSE p[i]]

\* line 556: path.basename (POSIX): what follows the last slash, trailing
\* slashes not counted; '' for a path of slashes only
RECURSIVE StripTrailingSlashes(_)
StripTrailingSlashes(p) ==
    IF p # <<>> /\ p[Len(p)] = "/"
    THEN StripTrailingSlashes(SubSeq(p, 1, Len(p) - 1))
    ELSE p
LastIndexOf(p, c) ==
    IF \E i \in DOMAIN p : p[i] = c
    THEN CHOOSE i \in DOMAIN p : p[i] = c /\ \A j \in DOMAIN p : p[j] = c => j <= i
    ELSE 0
basename(p) ==
    LET q == StripTrailingSlashes(p)
    IN  SubSeq(q, LastIndexOf(q, "/") + 1, Len(q))

\* line 562: downloadUrl.match(/\/([^\/\?]+)(\?|$)/): the leftmost slash that
\* is followed by one or more characters other than slash and question mark
\* and then by a question mark or the end; the match is those characters
RunEnd(u, i) ==
    CHOOSE j \in i..Len(u) :
        /\ \A k \in (i + 1)..j : u[k] \notin {"/", "?"}
        /\ j = Len(u) \/ u[j + 1] \in {"/", "?"}
Matches(u, i) ==
    /\ u[i] = "/"
    /\ RunEnd(u, i) > i
    /\ RunEnd(u, i) = Len(u) \/ u[RunEnd(u, i) + 1] = "?"
urlMatch(u) ==
    IF \E i \in DOMAIN u : Matches(u, i)
    THEN LET i == CHOOSE i \in DOMAIN u :
                      Matches(u, i) /\ \A j \in DOMAIN u : Matches(u, j) => i <= j
         IN  SubSeq(u, i + 1, RunEnd(u, i))
    ELSE <<>>

\* line 563: `task_${callbackToken}_${Date.now()}.mp4`
SynthesizedName == <<"task_", "token", "_", "now", ".mp4">>

\* lines 552-564: the file name
fileNameOf(filePath, downloadUrl) ==
    LET fromPath == basename(ReplaceBackslashes(filePath))
    IN  CASE fromPath # <<>> -> fromPath
          [] fromPath = <<>> /\ urlMatch(downloadUrl) # <<>> -> urlMatch(downloadUrl)
          [] OTHER -> SynthesizedName

\* lines 566-567: path.join(process.cwd(), 'downloads', fileName), which
\* resolves '.' and '..'
localPathOf(fileName) ==
    CASE fileName = <<".">> -> <<"downloads">>
      [] fileName = <<".", ".">> -> <<>>
      [] OTHER -> <<"downloads", fileName>>

\* pc: "input" (filePath and downloadUrl are given, both non-empty, line 542
\* and 550), "resolved"
NoFileName ==
    [pc |-> "none", filePath |-> <<>>, downloadUrl |-> <<>>, fileName |-> <<>>,
     localPath |-> <<>>]
ResolveFileName ==
    /\ fn.pc = "input"
    /\ fn' = [fn EXCEPT !.pc = "resolved",
                        !.fileName = fileNameOf(fn.filePath, fn.downloadUrl),
                        !.localPath = localPathOf(fileNameOf(fn.filePath, fn.downloadUrl))]
    /\ UNCHANGED <<bridge, req, dl>>

\* ------------------------------------------------------- sweep and clock
\* line 633: setInterval(cleanupExpiredTasks, 60 * 60 * 1000)
SweepWhenIdle ==
    /\ \A s \in Slots : disp[s].pc = "idle" /\ cb[s].pc = "idle"
    /\ taskStatus' = cleanupExpiredTasks(taskStatus, now)
    /\ hist' = HistSweep(hist, now)
    /\ last' = NoLast
    /\ UNCHANGED <<req, dl, fn, now, urlSet, disp, cb, started>>
Sweep ==
    /\ taskStatus' = cleanupExpiredTasks(taskStatus, now)
    /\ hist' = HistSweep(hist, now)
    /\ last' = NoLast
    /\ UNCHANGED <<req, dl, fn, now, urlSet, disp, cb, started>>

Tick ==
    /\ now < MaxTicks * TickMs
    /\ now' = now + TickMs
    /\ last' = NoLast
    /\ UNCHANGED <<req, dl, fn, urlSet, taskStatus, disp, cb, started, hist>>

\* ------------------------------------------------------ specification
EmptyMap == [x \in {} |-> NoCtx]

Init ==
    /\ now = 0
    /\ urlSet \in BOOLEAN
    /\ taskStatus = EmptyMap
    /\ disp = [s \in Slots |-> IdleDispatch]
    /\ cb = [s \in Slots |-> IdleCallback]
    /\ started = 0
    /\ hist = [t \in TaskIds \cup {ForeignToken, NoToken, UnprintableToken} |-> NoHist]
    /\ last = NoLast
    /\ req = IdleRequest(DefaultRetries)
    /\ dl = IdleDownload("none", FALSE)
    /\ fn = NoFileName

\* the handlers alone: the clock stands still and no sweep is due
Next ==
    \/ \E s \in Slots : DispatchReceive(s, MaxHandlers)
    \/ \E s \in Slots : TriggerReturn(s)
    \/ \E s \in Slots : StartedPostReturn(s)
    \/ \E s \in Slots : ResultPostReturn(s)
    \/ \E s \in Slots : ErrorNoticeReturn(s)
    \/ \E s \in Slots : CallbackReceive(s, MaxHandlers, PathPayloads)
    \/ \E s \in Slots : FileExistsReturn(s)
    \/ \E s \in Slots : DownloadReturn(s)
    \/ \E s \in Slots : PrimaryReturn(s)
    \/ \E s \in Slots : FallbackReturn(s)

Spec == Init /\ [][Next]_vars

\* the handlers, the hourly sweep and the clock
NextClock ==
    \/ \E s \in Slots : DispatchReceive(s, MaxClockHandlers)
    \/ \E s \in Slots : TriggerReturn(s)
    \/ \E s \in Slots : StartedPostReturn(s)
    \/ \E s \in Slots : ResultPostReturn(s)
    \/ \E s \in Slots : ErrorNoticeReturn(s)
    \/ \E s \in Slots : CallbackReceive(s, MaxClockHandlers, PathPayloads)
    \/ \E s \in Slots : FileExistsReturn(s)
    \/ \E s \in Slots : DownloadReturn(s)
    \/ \E s \in Slots : PrimaryReturn(s)
    \/ \E s \in Slots : FallbackReturn(s)
    \/ Sweep
    \/ Tick

SpecClock == Init /\ [][NextClock]_vars

\* the timer of line 633 fires for as long as the process runs, whatever the
\* handlers are awaiting, and time passes; no dispatch is required to go on,
\* and no callback ever arrives
NextLive ==
    \/ \E s \in Slots : DispatchReceive(s, MaxClockHandlers)
    \/ \E s \in Slots : TriggerReturn(s)
    \/ \E s \in Slots : StartedPostReturn(s)
    \/ \E s \in Slots : ResultPostReturn(s)
    \/ \E s \in Slots : ErrorNoticeReturn(s)
    \/ Sweep
    \/ Tick

SpecLive == Init /\ [][NextLive]_vars /\ WF_vars(Sweep) /\ WF_vars(Tick)

\* a dispatch and the callback for it (or two of a kind), the callback with
\* any payload
NextReconcile ==
    \/ \E s \in Slots : DispatchReceive(s, MaxReconcileHandlers)
    \/ \E s \in Slots : TriggerReturn(s)
    \/ \E s \in Slots : StartedPostReturn(s)
    \/ \E s \in Slots : ResultPostReturn(s)
    \/ \E s \in Slots : ErrorNoticeReturn(s)
    \/ \E s \in Slots : CallbackReceive(s, MaxReconcileHandlers, PayloadShapes)
    \/ \E s \in Slots : FileExistsReturn(s)
    \/ \E s \in Slots : DownloadReturn(s)
    \/ \E s \in Slots : PrimaryReturn(s)
    \/ \E s \in Slots : FallbackReturn(s)

SpecReconcile == Init /\ [][NextReconcile]_vars

\* every outbound call a handler awaits (the executor, the Discord sends,
\* fileExists, downloadFile) eventually succeeds, fails or is aborted by its
\* timeout, and the handler is resumed; nothing obliges a request or a
\* callback to arrive
DispatchResumes(s) ==
    \/ TriggerReturn(s)
    \/ StartedPostReturn(s)
    \/ ResultPostReturn(s)
    \/ ErrorNoticeReturn(s)
CallbackResumes(s) ==
    \/ FileExistsReturn(s)
    \/ DownloadReturn(s)
    \/ PrimaryReturn(s)
    \/ FallbackReturn(s)
SpecTerminate ==
    /\ Init
    /\ [][NextReconcile]_vars
    /\ \A s \in Slots : WF_vars(DispatchResumes(s)) /\ WF_vars(CallbackResumes(s))

\* cleanupExpiredTasks alone, on stores of contexts that are 25, 24, 13, 1
\* and 0 hours old when the first sweep can run; the clock then
\* advances by the hour
SweepStartHours == <<0, 1, 12, 24, 25>>
SweepId(k) == generateTaskId(SweepStartHours[k] * HourMs, <<"r", k>>)
SweepIds == {SweepId(k) : k \in DOMAIN SweepStartHours}
SweepCtx(k) == NewContext(k, SweepStartHours[k] * HourMs)
SweepEpoch == 25 * HourMs

InitSweep ==
    /\ now = SweepEpoch
    /\ urlSet = TRUE
    /\ \E S \in SUBSET (DOMAIN SweepStartHours) :
         /\ taskStatus = [t \in {SweepId(k) : k \in S} |->
                             SweepCtx(CHOOSE k \in S : SweepId(k) = t)]
         /\ hist = [t \in SweepIds |->
                       IF t \in {SweepId(k) : k \in S}
                       THEN [op |-> "put",
                             ctx |-> SweepCtx(CHOOSE k \in S : SweepId(k) = t)]
                       ELSE NoHist]
    /\ disp = [s \in Slots |-> IdleDispatch]
    /\ cb = [s \in Slots |-> IdleCallback]
    /\ started = 0
    /\ last = NoLast
    /\ req = IdleRequest(DefaultRetries)
    /\ dl = IdleDownload("none", FALSE)
    /\ fn = NoFileName

HourTick ==
    /\ now < SweepEpoch + MaxSweepHours * HourMs
    /\ now' = now + HourMs
    /\ last' = NoLast
    /\ UNCHANGED <<req, dl, fn, urlSet, taskStatus, disp, cb, started, hist>>

NextSweep ==
    \/ Sweep
    \/ HourTick

SpecSweep == InitSweep /\ [][NextSweep]_vars

\* DiscordRequest alone, called with any retries argument up to MaxRetries
InitRequest ==
    /\ now = 0
    /\ urlSet = TRUE
    /\ taskStatus = EmptyMap
    /\ disp = [s \in Slots |-> IdleDispatch]
    /\ cb = [s \in Slots |-> IdleCallback]
    /\ started = 0
    /\ hist = [t \in TaskIds \cup {ForeignToken, NoToken, UnprintableToken} |-> NoHist]
    /\ last = NoLast
    /\ req \in {IdleRequest(r) : r \in 0..MaxRetries}
    /\ dl = IdleDownload("none", FALSE)
    /\ fn = NoFileName

NextRequest ==
    \/ RequestBegin
    \/ FetchReturn
    \/ SleepReturn

SpecRequest == InitRequest /\ [][NextRequest]_vars

\* downloadFile alone, with or without a file at localPath before the call
InitDownload ==
    /\ now = 0
    /\ urlSet = TRUE
    /\ taskStatus = EmptyMap
    /\ disp = [s \in Slots |-> IdleDispatch]
    /\ cb = [s \in Slots |-> IdleCallback]
    /\ started = 0
    /\ hist = [t \in TaskIds \cup {ForeignToken, NoToken, UnprintableToken} |-> NoHist]
    /\ last = NoLast
    /\ req = IdleRequest(DefaultRetries)
    /\ dl \in {IdleDownload("none", FALSE), IdleDownload("none", TRUE),
                IdleDownload("old", TRUE)}
    /\ fn = NoFileName

NextDownload ==
    \/ DownloadBegin
    \/ DownloadFetchReturn
    \/ ErrorTextReturn
    \/ MkdirReturn
    \/ PipelineReturn
    \/ UnlinkReturn

SpecDownload == InitDownload /\ [][NextDownload]_vars

\* the choice of the file name alone, for every filePath and download URL
\* of up to MaxPathLen and MaxUrlLen characters
InitFileName ==
    /\ now = 0
    /\ urlSet = TRUE
    /\ taskStatus = EmptyMap
    /\ disp = [s \in Slots |-> IdleDispatch]
    /\ cb = [s \in Slots |-> IdleCallback]
    /\ started = 0
    /\ hist = [t \in TaskIds \cup {ForeignToken, NoToken, UnprintableToken} |-> NoHist]
    /\ last = NoLast
    /\ req = IdleRequest(DefaultRetries)
    /\ dl = IdleDownload("none", FALSE)
    /\ \E p \in StringsOver(PathChars, MaxPathLen) \ {<<>>},
          u \in StringsOver(UrlChars, MaxUrlLen) \ {<<>>} :
         fn = [NoFileName EXCEPT !.pc = "input", !.filePath = p, !.downloadUrl = u]

NextFileName ==
    \/ ResolveFileName

SpecFileName == InitFileName /\ [][NextFileName]_vars

\* the legacy reconcile alone: callbacks arrive while the contexts that two
\* dispatches stored, or one of them, or none are in the store
LegacyId(k) == generateTaskId(0, <<"r", k>>)
InitLegacy ==
    /\ now = 0
    /\ urlSet = TRUE
    /\ \E S \in SUBSET {1, 2} :
         /\ taskStatus = [t \in {LegacyId(k) : k \in S} |->
                             NewContext(CHOOSE k \in S : LegacyId(k) = t, 0)]
         /\ hist = [t \in TaskIds \cup {ForeignToken, NoToken, UnprintableToken} |->
                       IF t \in {LegacyId(k) : k \in S}
                       THEN [op |-> "put",
                             ctx |-> NewContext(CHOOSE k \in S : LegacyId(k) = t, 0)]
                       ELSE NoHist]
    /\ disp = [s \in Slots |-> IdleDispatch]
    /\ cb = [s \in Slots |-> IdleCallback]
    /\ started = 0
    /\ last = NoLast
    /\ req = IdleRequest(DefaultRetries)
    /\ dl = IdleDownload("none", FALSE)
    /\ fn = NoFileName

NextLegacy ==
    \/ \E s \in Slots : LegacyCallbackReceive(s, MaxLegacyCallbacks)
    \/ \E s \in Slots : LegacyPrimaryReturn(s)
    \/ \E s \in Slots : LegacyFallbackReturn(s)

SpecLegacy == InitLegacy /\ [][NextLegacy]_vars

\* ===================================================================
\* Properties
\* ===================================================================
IsDispatchReturn(l) == l.handler = "dispatch"
IsCallbackReturn(l) == l.handler = "callback"
Terminal(status) == status \in {"success", "failed"}
\* the step just taken was the arrival of a callback, carrying this token
CallbackArrives == started' # started /\ disp' = disp
Arriving == IF cb' = cb THEN last'.c ELSE cb'[CHOOSE x \in Slots : cb'[x] # cb[x]]
ReturnedAtOnce(outcomes) ==
    /\ cb' = cb
    /\ IsCallbackReturn(last')
    /\ last'.c.outcome \in outcomes
    /\ last'.c.sent = NoMsg
    /\ last'.c.downloads = 0
    /\ taskStatus' = taskStatus

\* C1: a lookup of a task id returns the context put under it if and only if
\* a context was put and neither a delete of the id nor a sweep that ran when
\* the context was older than 24 hours has happened since; otherwise it
\* returns the absent value.
C1_LookupIffLive ==
    /\ DOMAIN taskStatus \subseteq DOMAIN hist
    /\ \A t \in DOMAIN hist :
         getTaskStatus(taskStatus, t) = IF hist[t].op = "put" THEN hist[t].ctx ELSE NoCtx
C1_Witness ==
    \E t \in DOMAIN hist :
        /\ hist[t].op = "swept"
        /\ getTaskStatus(taskStatus, t) = NoCtx
        /\ \E u \in DOMAIN hist : hist[u].op = "put" /\ now - hist[u].ctx.startTime = expireTime

\* C2: every dispatch sends exactly one acknowledgment, and sends it before
\* the create-task call; no create-task call is issued without it.
AckFirst(r) == r.calls \in {<<"ack">>, <<"ack", "createTask">>}
C2_AckBeforeExecutor ==
    /\ \A s \in Slots : disp[s].pc # "idle" => AckFirst(disp[s])
    /\ IsDispatchReturn(last) => AckFirst(last.d)
C2_Witness ==
    /\ IsDispatchReturn(last)
    /\ last.d.calls = <<"ack", "createTask">>
    /\ last.d.stored = 1

\* C3 (as claimed): a callback for a task id that arrives after the executor
\* has accepted the task, while the dispatch has not failed and the context
\* was neither delivered nor swept, is never treated as an unknown task id.
AcceptedInFlight(t) ==
    /\ hist[t].op \notin {"deleted", "swept"}
    /\ \E s \in Slots : disp[s].pc = "started" /\ disp[s].taskId = t
C3_ContextStoredBeforeCallback ==
    (IsCallbackReturn(last) /\ AcceptedInFlight(last.c.token))
        => last.c.outcome # "unknown"

\* C4: a terminal callback that arrives for a task id whose context an
\* earlier reconcile delivered and deleted returns at once: it sends no
\* message, starts no download and leaves the store as it is.
C4_DuplicateIsNoOp ==
    [][(CallbackArrives /\ hist[Arriving.token].op = "deleted"
                        /\ Terminal(Arriving.status))
          => ReturnedAtOnce({"unknown"})]_vars
C4_Witness ==
    /\ IsCallbackReturn(last)
    /\ Terminal(last.c.status)
    /\ hist[last.c.token].op = "deleted"
    /\ last.c.outcome = "unknown"
    /\ last.c.sent = NoMsg

C6_DeletedOnDelivery ==
    [][/\ (IsCallbackReturn(last') /\ last'.c.outcome \in {"delivered", "textOnly"})
            => (~MapHas(taskStatus', last'.c.token) /\ last'.c.sent # NoMsg)
       /\ \A t \in DOMAIN taskStatus :
            ~MapHas(taskStatus', t)
                => /\ IsCallbackReturn(last')
                   /\ last'.c.token = t
                   /\ last'.c.outcome \in {"delivered", "textOnly"}
                   /\ \E s \in Slots : cb[s].pc \in {"primary", "fallback"}
                                        /\ cb[s].token = t /\ cb'[s].pc = "idle"]_vars
C6_Witness ==
    /\ IsCallbackReturn(last)
    /\ last.c.outcome = "delivered"
    /\ last.c.sent.attach
    /\ ~MapHas(taskStatus, last.c.token)

TextOnly(m) ==
    [attach |-> FALSE, channelId |-> m.channelId, replyTo |-> NoId,
     content |-> m.content]
C8_OneFallback ==
    [][\A s \in Slots :
          /\ (cb[s].pc = "primary" /\ cb'[s] # cb[s]) =>
                \/ /\ cb'[s].pc = "idle"
                   /\ IsCallbackReturn(last')
                   /\ last'.c.outcome = "delivered"
                   /\ last'.c.sent = cb[s].pending
                \/ /\ cb'[s].pc = "fallback"
                   /\ cb'[s].pending = TextOnly(cb[s].pending)
                   /\ cb'[s].sent = NoMsg
          /\ (cb[s].pc = "fallback" /\ cb'[s] # cb[s]) =>
                /\ cb'[s].pc = "idle"
                /\ IsCallbackReturn(last')
                /\ \/ last'.c.outcome = "textOnly" /\ last'.c.sent = cb[s].pending
                   \/ last'.c.outcome = "undelivered" /\ last'.c.sent = NoMsg]_vars
C8_Witness ==
    \E s \in Slots :
        /\ cb[s].pc = "fallback"
        /\ cb[s].pending.content.kind = "done"
        /\ ~cb[s].pending.attach
        /\ cb[s].sent = NoMsg

\* C9 (as claimed): a dispatch in which the executor call or a post to the
\* conversation failed attempts a failure notice and stores no context.
Kinds(r) == {r.msgs[i].kind : i \in DOMAIN r.msgs}
PostedMsgs(r) == {i \in DOMAIN r.msgs : r.msgs[i].posted}
DispatchFailed(r) ==
    \/ r.caught
    \/ \E i \in DOMAIN r.msgs : ~r.msgs[i].posted
C9_FailureNoticeOnAnyFailure ==
    (IsDispatchReturn(last) /\ DispatchFailed(last.d))
        => ("error" \in Kinds(last.d) /\ last.d.stored = 0)

\* C10 (as claimed): a dispatch never puts two messages into the
\* conversation; it puts exactly one when Discord accepted every post; and a
\* dispatch that succeeds stores exactly one context.
C10_OneMessagePerDispatch ==
    IsDispatchReturn(last) =>
        /\ Cardinality(PostedMsgs(last.d)) <= 1
        /\ PostedMsgs(last.d) = DOMAIN last.d.msgs => Cardinality(PostedMsgs(last.d)) = 1
        /\ ~DispatchFailed(last.d) => last.d.stored = 1

\* ---------------------------------------------------------------
\* the resilient request
Terminated(r) == r.pc \in {"returned", "thrown"}
Events(r) == [i \in DOMAIN r.log |-> r.log[i].ev]
AttemptsMade(r) == Cardinality({i \in DOMAIN r.log : r.log[i].ev = "attempt"})
\* the failures the specification calls retryable: connection reset, timeout,
\* DNS failure, the abort of the 30 s timer, a generic network failure
TransportFailure(e) ==
    /\ e.seen = "none"
    /\ \/ e.code \in {"ECONNRESET", "ETIMEDOUT", "ENOTFOUND"}
       \/ e.name = "AbortError"
       \/ e.fetchFailed

\* C11: with the default budget DiscordRequest makes at most 3 attempts; when
\* it throws a retryable error it has made exactly 3 attempts with a wait
\* after the first and the second only, and the error is that of the third;
\* when it returns, it returns the response of its last attempt, and a
\* request that has returned or thrown does nothing more.
C11_AtMostThreeAttempts ==
    [][req'.retries = DefaultRetries =>
          /\ AttemptsMade(req') <= 3
          /\ (req'.pc = "thrown" /\ TransportFailure(req'.error)) =>
                /\ Events(req') = <<"attempt", "wait", "attempt", "wait", "attempt">>
                /\ req'.error.at = 3
          /\ req'.pc = "returned" =>
                /\ req'.result.kind = "response"
                /\ req'.log[Len(req'.log)] = AttemptEvent(req'.result.at)
          /\ Terminated(req) => req' = req]_vars
C11_Witness ==
    /\ req.retries = DefaultRetries
    /\ req.pc = "thrown"
    /\ TransportFailure(req.error)
    /\ req.error.at = 3
    /\ AttemptsMade(req) = 3

\* C12: the delay waited before attempt n (n >= 2) is
\* min(1000 * 2^(n-2), 10000) ms: 1000 before the second attempt, 2000 before
\* the third; for every budget no delay exceeds 10000 ms and no delay is
\* shorter than an earlier one of the same request.
C12_BackoffDelays ==
    \A i \in DOMAIN req.log :
        req.log[i].ev = "wait" =>
            LET n == req.log[i].n + 1
                ms == req.log[i].ms
            IN  /\ n >= 2
                /\ i > 1 /\ req.log[i - 1] = AttemptEvent(n - 1)
                /\ ms = (IF 1000 * 2^(n - 2) <= 10000 THEN 1000 * 2^(n - 2) ELSE 10000)
                /\ n = 2 => ms = 1000
                /\ n = 3 => ms = 2000
                /\ ms <= 10000
                /\ \A j \in 1..(i - 1) :
                      req.log[j].ev = "wait" => req.log[j].ms <= ms
C12_Witness ==
    \E i \in DOMAIN req.log :
        /\ req.log[i].ev = "wait"
        /\ req.log[i].n = 5
        /\ req.log[i].ms = 10000

\* C13: an attempt is followed by a wait and a further attempt only when its
\* error is a retryable one, told by its code (ECONNRESET, ETIMEDOUT,
\* ENOTFOUND), its name (AbortError, the 30 s timer) or its message ('fetch
\* failed', the generic network failure); any other error at attempt k is
\* thrown at once, with no wait and no attempt k+1, whatever budget remains.
ClassedRetryable(e) ==
    \/ e.code \in {"ECONNRESET", "ETIMEDOUT", "ENOTFOUND"}
    \/ e.name = "AbortError"
    \/ e.fetchFailed
C14_Non2xxNotRetried ==
    [][(req.pc = "fetch" /\ req'.error.seen = "non2xx") =>
          /\ req'.pc = "thrown"
          /\ req'.log = req.log
          /\ req'.error.status = "non2xx"
          /\ req'.error.body # "none"]_vars

\* ---------------------------------------------------------------
\* dispatch and the executor
CreateTaskCalls(r) == Cardinality({i \in DOMAIN r.calls : r.calls[i] = "createTask"})

\* C15 (as claimed): a dispatch whose create-task call failed with a
\* retryable transport failure has made the call 3 times before it treated
\* it as failed.
C15_ExecutorCallRetried ==
    (IsDispatchReturn(last) /\ last.d.executor = "transport")
        => CreateTaskCalls(last.d) = DefaultRetries

\* ---------------------------------------------------------------
\* the sweep
Age(info) == now - info.startTime

\* C16: one run of the sweep removes every context older than 24 hours and no
\* other: a context aged 25 hours is removed, one aged 1 hour or exactly 24
\* hours is kept, and the contexts kept are unchanged.
C16_SweepRemovesExactlyExpired ==
    [][now' = now =>
          /\ DOMAIN taskStatus' =
                {t \in DOMAIN taskStatus : Age(taskStatus[t]) <= 24 * HourMs}
          /\ \A t \in DOMAIN taskStatus' : taskStatus'[t] = taskStatus[t]
          /\ \A t \in DOMAIN taskStatus :
                /\ Age(taskStatus[t]) = 25 * HourMs => ~MapHas(taskStatus', t)
                /\ Age(taskStatus[t]) \in {HourMs, 24 * HourMs} => MapHas(taskStatus', t)]_vars
C16_Witness ==
    /\ \E t \in DOMAIN hist : hist[t].op = "swept" /\ now - t.ts = 25 * HourMs
    /\ \E t \in DOMAIN taskStatus : Age(taskStatus[t]) = 24 * HourMs
    /\ \E t \in DOMAIN taskStatus : Age(taskStatus[t]) = HourMs

\* C17: every context put into the store is eventually removed when no
\* callback for it arrives, whatever the handlers in flight are waiting for:
\* the sweep keeps running.  The bounded clock can age beyond 24 hours the
\* contexts stored no later than two ticks before its end: from some moment
\* on the store holds none of them.
LastSweepableStart == (MaxTicks - 2) * TickMs
Sweepable(t) == MapHas(taskStatus, t) /\ taskStatus[t].startTime <= LastSweepableStart
C17_EventuallySwept ==
    <>[](\A t \in TaskIds : ~Sweepable(t))
C17_Witness ==
    /\ \E t \in DOMAIN hist : hist[t].op = "swept"
    /\ \E s \in Slots : disp[s].pc = "trigger"

\* ---------------------------------------------------------------
\* frame conditions of the store
\* the step just taken was a run of the sweep (no handler moved, no time passed)
SweepStep == now' = now /\ disp' = disp /\ cb' = cb /\ started' = started
Changed(t) == ~MapHas(taskStatus', t) \/ taskStatus'[t] # taskStatus[t]

C19_OtherStatusKeepsContext ==
    [][(CallbackArrives /\ MapHas(taskStatus, Arriving.token)
                        /\ ~Terminal(Arriving.status))
          => (ReturnedAtOnce({"otherStatus"})
              /\ taskStatus'[Arriving.token] = taskStatus[Arriving.token])]_vars
C19_Witness ==
    /\ IsCallbackReturn(last)
    /\ last.c.outcome = "otherStatus"
    /\ last.c.status = "other"
    /\ MapHas(taskStatus, last.c.token)
    /\ taskStatus[last.c.token] = hist[last.c.token].ctx

\* C20 (as claimed): a dispatch whose create-task call the executor answered
\* with status 'success' (and a message), and whose posts Discord accepted,
\* has sent one acknowledgment, made one executor call, posted one message,
\* the executor's message text, and has stored a context that is in the store.
C20_SynchronousSuccessPostsResult ==
    (IsDispatchReturn(last) /\ last.d.executor = "success" /\ ~DispatchFailed(last.d))
        => /\ last.d.calls = <<"ack", "createTask">>
           /\ last.d.msgs = <<[kind |-> "result", posted |-> TRUE]>>
           /\ last.d.stored = 1
           /\ MapHas(taskStatus, last.d.taskId)

\* ---------------------------------------------------------------
\* C21 (as claimed): a dispatch whose task the executor accepted posts one
\* provisional notice and stores a context if and only if Discord answered
\* that post with 2xx.
C21_StoredIffPosted ==
    (IsDispatchReturn(last) /\ last.d.executor = "success")
        => /\ Cardinality({i \in DOMAIN last.d.msgs : last.d.msgs[i].kind = "started"}) = 1
           /\ last.d.stored = 1 <=> last.d.msgs[1].posted
\* C21 (amended): a dispatch whose task the executor accepted posts one
\* provisional notice, first of its posts, and stores a context if and only if
\* Discord answered that post with 2xx and the message it returned was read;
\* the context is stored under the task id of the dispatch, with the id of the
\* posted notice and the channel and user of the invocation.
C21_StoredIffPostedAndRead ==
    [][(IsDispatchReturn(last') /\ last'.d.executor = "success") =>
          LET d == last'.d
          IN  /\ {i \in DOMAIN d.msgs : d.msgs[i].kind = "started"} = {1}
              /\ d.stored = 1 <=> (d.msgs[1].posted /\ ~d.caught)
              /\ d.stored = 0 => taskStatus' = taskStatus
              /\ d.stored = 1 =>
                    /\ MapHas(taskStatus', d.taskId)
                    /\ taskStatus'[d.taskId].messageId = MessageIdOf(d.id)
                    /\ taskStatus'[d.taskId].channelId = Invocation(d.id).channel_id
                    /\ taskStatus'[d.taskId].userId = Invocation(d.id).userId
                    /\ \A t \in DOMAIN taskStatus \ {d.taskId} :
                          MapHas(taskStatus', t) /\ taskStatus'[t] = taskStatus[t]]_vars
C21_Witness ==
    /\ IsDispatchReturn(last)
    /\ last.d.executor = "success"
    /\ last.d.stored = 1
    /\ MapHas(taskStatus, last.d.taskId)
    /\ taskStatus[last.d.taskId].messageId = MessageIdOf(last.d.id)

\* ---------------------------------------------------------------
\* reconcile, payload by payload
\* the handler in slot s has taken the step: what it is now, returned or not
After(s) == IF cb'[s].pc = "idle" THEN last'.c ELSE cb'[s]
Steps(s, pc) == cb[s].pc = pc /\ cb'[s] # cb[s]
\* the callback went past both lookups (lines 532 and 334)
Reconciled(c) == c.outcome \in {"delivered", "textOnly", "undelivered"}

\* C22 (as claimed): reconcile of {callbackToken: T, status: 'success',
\* data: '/tmp/out.mp4'} for a known T hands the file to the delivery, and
\* a delivery that succeeds has put a message with the file attached, in reply
\* to the provisional message, into the channel and has deleted T's context.
C22_DataPathDelivered ==
    (IsCallbackReturn(last) /\ Reconciled(last.c) /\ last.c.status = "success"
        /\ last.c.filePath = "none" /\ last.c.data = "path")
        => /\ last.c.result \in {"filePath", "localPath"}
           /\ last.c.outcome = "delivered" =>
                 /\ last.c.sent.attach
                 /\ last.c.sent.replyTo # NoId
                 /\ ~MapHas(taskStatus, last.c.token)

FailureDelivered(c, result) ==
    /\ Reconciled(c)
    /\ c.result = result
    /\ c.sent # NoMsg

\* C24 (as claimed): when downloadFile failed on a CDN error page, the
\* message put into the channel carries the text of that error ('Download
\* link may be expired or invalid ...').
C24_LinkExpiredReported ==
    (IsCallbackReturn(last) /\ FailureDelivered(last.c, "linkExpiredText"))
        => last.c.sent.content.detail = "linkExpiredText"

\* C25 (as claimed): the message put into the channel for a callback with
\* status 'failed' carries the failure message of the payload, or the default
\* failure text when the payload has none, and the elapsed time.
C25_FailureMessageReported ==
    (IsCallbackReturn(last) /\ last.c.status = "failed" /\ Reconciled(last.c)
        /\ last.c.sent # NoMsg)
        => /\ last.c.message = "given" => last.c.sent.content.detail = "payloadMessage"
           /\ last.c.message = "none" => last.c.sent.content.kind = "failed"
           /\ last.c.sent.content.elapsed >= 0

\* C26 (as claimed): a success callback for a known task id with no file to
\* deliver (filePath given but the file missing and no download URL, or no
\* filePath at all and no download URL) is handled as a failure: no send with
\* an attachment is started, and the message put into the channel carries
\* the text 'File not found and no download URL provided'.
NoReference(c) ==
    /\ c.status = "success"
    /\ c.data = "none"
    /\ c.result # "filePath"
C26_ArtifactMissingReported ==
    /\ \A s \in Slots : NoReference(cb[s]) => ~cb[s].pending.attach
    /\ (IsCallbackReturn(last) /\ NoReference(last.c) /\ Reconciled(last.c)) =>
          /\ last.c.result = "notFoundText"
          /\ last.c.sent # NoMsg => last.c.sent.content.detail = "notFoundText"

\* ---------------------------------------------------------------
\* the artifact download
\* C27 (as claimed): whenever downloadFile fails, there is no file at
\* localPath when the error reaches the caller, and the error is the one that
\* made it fail.
C27_NoFileAfterFailure ==
    dl.pc = "thrown" => (dl.file = "none" /\ dl.raised = dl.error)
\* C27 (amended): whenever downloadFile fails, at whatever step, it has called
\* fs.unlink on localPath once, as its last call, before the error reaches the
\* caller; there is no file at localPath then unless that unlink failed (its
\* error is ignored and the file stays); and the error raised is the one that
\* made the download fail.
C27_UnlinkedUnlessCleanupFails ==
    /\ dl.pc = "thrown" =>
          /\ dl.raised = dl.error /\ dl.error # "none"
          /\ dl.cleanup # "none"
          /\ dl.calls[Len(dl.calls)] = "unlink"
          /\ Cardinality({i \in DOMAIN dl.calls : dl.calls[i] = "unlink"}) = 1
          /\ dl.cleanup # "failed" => dl.file = "none"
          /\ dl.cleanup = "failed" => dl.file \in {"old", "partial"}
    /\ dl.pc = "returned" => (dl.file = "complete" /\ dl.cleanup = "none")
C27_Witness ==
    /\ dl.pc = "thrown"
    /\ dl.error = "stream"
    /\ dl.cleanup = "removed"
    /\ dl.file = "none"

\* ---------------------------------------------------------------
\* C28 (as claimed): whatever the payload and whatever the outcome of the
\* lookups, the download and the sends, handleRemoteServiceCallback returns
\* normally and the callback endpoint answers 200.
C28_NeverRaises ==
    IsCallbackReturn(last) =>
        /\ last.c.outcome # "raised"
        /\ EndpointStatus(last.c) = 200

\* ---------------------------------------------------------------
\* task ids and the contexts stored under them
\* C29 (as claimed): a put under a task id that has a context in the store
\* fails and leaves that context as it is.
C29_SecondPutRejected ==
    [][\A t \in DOMAIN taskStatus :
          (IsDispatchReturn(last') /\ last'.d.taskId = t /\ last'.d.stored = 1)
              => taskStatus'[t] = taskStatus[t]]_vars

\* C30 (as claimed): two dispatches whose contexts can be in the store at the
\* same time never carry the same task id: a dispatch in flight has a task id
\* that no other dispatch in flight has and under which no context of an
\* earlier dispatch is stored.
C30_TaskIdsDistinct ==
    \A s \in Slots :
        disp[s].pc # "idle" =>
            /\ ~MapHas(taskStatus, disp[s].taskId)
            /\ \A s2 \in Slots \ {s} :
                  disp[s2].pc # "idle" => disp[s2].taskId # disp[s].taskId

\* ---------------------------------------------------------------
\* delivery and the stored context
Enters(s, pc) == cb'[s].pc = pc /\ cb[s].pc # pc

\* C31: the first send for task id T goes to the channel stored in T's
\* context and replies to the message stored in T's context, as they are in
\* the store when the send starts, and to the channel and message of no other
\* task id's context; the text-only send that follows a failed first send
\* goes to the same channel.
C31_DeliveryTargetsOwnContext ==
    [][\A s \in Slots :
          /\ Enters(s, "primary") =>
                LET m == cb'[s].pending
                    T == cb'[s].token
                IN  /\ MapHas(taskStatus, T)
                    /\ m.channelId = taskStatus[T].channelId
                    /\ m.replyTo = taskStatus[T].messageId
                    /\ m.content.userId = taskStatus[T].userId
                    /\ \A t \in DOMAIN taskStatus \ {T} :
                          /\ m.channelId # taskStatus[t].channelId
                          /\ m.replyTo # taskStatus[t].messageId
          /\ (Enters(s, "fallback") /\ cb[s].pc = "primary") =>
                cb'[s].pending.channelId = cb[s].pending.channelId
          /\ (Enters(s, "fallback") /\ cb[s].pc # "primary") =>
                /\ MapHas(taskStatus, cb'[s].token)
                /\ cb'[s].pending.channelId = taskStatus[cb'[s].token].channelId]_vars
C31_Witness ==
    \E s \in Slots :
        /\ cb[s].pc = "primary"
        /\ MapHas(taskStatus, cb[s].token)
        /\ cb[s].pending.replyTo = taskStatus[cb[s].token].messageId
        /\ \E t \in DOMAIN taskStatus : t # cb[s].token

\* C32 (as claimed): a context that is in the store before and after a step
\* has the same fields after it, whichever handler or sweep took the step.
C32_ContextFieldsFrozen ==
    [][\A t \in DOMAIN taskStatus :
          MapHas(taskStatus', t) => taskStatus'[t] = taskStatus[t]]_vars

\* ---------------------------------------------------------------
\* C33: a dispatch that failed after the acknowledgment and whose failure
\* notice failed too returns normally in the step in which the notice failed:
\* the notice was its last post and its only failure notice, it stored no
\* context and left the store as it is, and it used res.send once, for the
\* acknowledgment (handleRemoteTaskCommand has not thrown, so the catch block
\* of the front door sends no second response).
NoticeFailed(r) ==
    /\ r.caught
    /\ r.msgs # <<>>
    /\ r.msgs[Len(r.msgs)] = [kind |-> "error", posted |-> FALSE]
C33_FailedNoticeEndsDispatch ==
    [][(IsDispatchReturn(last') /\ NoticeFailed(last'.d)) =>
          LET d == last'.d
          IN  /\ \E s \in Slots : disp[s].pc = "error" /\ disp'[s].pc = "idle"
                                   /\ disp[s].msgs = SubSeq(d.msgs, 1, Len(d.msgs) - 1)
              /\ Cardinality({i \in DOMAIN d.msgs : d.msgs[i].kind = "error"}) = 1
              /\ d.stored = 0
              /\ taskStatus' = taskStatus
              /\ Cardinality({i \in DOMAIN d.calls : d.calls[i] = "ack"}) = 1
              /\ d.calls[1] = "ack"]_vars
C33_Witness ==
    /\ IsDispatchReturn(last)
    /\ NoticeFailed(last.d)
    /\ last.d.executor = "success"
    /\ Len(last.d.msgs) = 2
    /\ last.d.stored = 0

\* ---------------------------------------------------------------
\* the local file name
Resolved == fn.pc = "resolved"
InDownloads(place) == Len(place) = 2 /\ place[1] = "downloads"
\* the path with either kind of slash as separator: its last component
Separators == {"/", "\\"}
IsBaseName(name, p) ==
    \E i \in DOMAIN p, j \in DOMAIN p :
        /\ name = SubSeq(p, i, j)
        /\ name # <<>>
        /\ \A k \in i..j : p[k] \notin Separators
        /\ i = 1 \/ p[i - 1] \in Separators
        /\ \A k \in (j + 1)..Len(p) : p[k] \in Separators
HasBaseName(p) == \E i \in DOMAIN p : p[i] \notin Separators
\* the URL up to its first question mark: its last segment
BeforeQuery(u) ==
    IF \E i \in DOMAIN u : u[i] = "?"
    THEN SubSeq(u, 1, (CHOOSE i \in DOMAIN u : u[i] = "?" /\ \A j \in 1..(i - 1) : u[j] # "?") - 1)
    ELSE u

\* C34 (as claimed): the file name is the base name of filePath, backslashes
\* being separators; when filePath has none it is a segment of the download
\* URL that lies before the query string; when there is none it is the
\* synthesized name; and the file is placed inside the downloads directory.
C34_FileNameAndPlace ==
    Resolved =>
        /\ HasBaseName(fn.filePath) => IsBaseName(fn.fileName, fn.filePath)
        /\ ~HasBaseName(fn.filePath) =>
              \/ fn.fileName = SynthesizedName
              \/ \E i \in DOMAIN BeforeQuery(fn.downloadUrl), j \in DOMAIN BeforeQuery(fn.downloadUrl) :
                    fn.fileName = SubSeq(BeforeQuery(fn.downloadUrl), i, j)
        /\ InDownloads(fn.localPath)

\* ---------------------------------------------------------------
\* the legacy reconcile
\* C35: in the legacy bridge a callback for a known task id without a status
\* is reconciled as a success: one send of the completion message is
\* started, in reply to the task-started message, and the context is deleted
\* when that send or the send without reply reference that follows its
\* failure succeeds, and kept when both fail; a callback with a status other
\* than 'success' and 'failed' sends nothing and leaves the store as it is.
\* (Without data the completion message cannot be composed: the handler
\* raises before any send.)
C35_LegacyMissingStatusIsSuccess ==
    [][/\ CallbackArrives =>
          LET c == Arriving
          IN  /\ (c.status = "none" /\ MapHas(taskStatus, c.token)) =>
                    /\ c.pc = "primary"
                    /\ c.pending.content.kind = "done"
                    /\ c.pending.replyTo = taskStatus[c.token].messageId
                    /\ c.sent = NoMsg
              /\ (c.status = "other" /\ MapHas(taskStatus, c.token)) =>
                    ReturnedAtOnce({"otherStatus"})
       /\ (IsCallbackReturn(last') /\ last'.c.status = "none") =>
             /\ last'.c.outcome \in {"delivered", "textOnly"} =>
                   (~MapHas(taskStatus', last'.c.token) /\ last'.c.sent # NoMsg)
             /\ last'.c.outcome = "undelivered" =>
                   (taskStatus' = taskStatus /\ last'.c.sent = NoMsg)]_vars

\* C36 (as claimed): at most one final message is delivered for a task id
\* over the life of its context: a delivery is followed by the delete of the
\* context, so every final message that reaches the conversation, whether
\* from the first send or from the text-only one, is delivered while the
\* context of its task id is still in the store, in every interleaving of
\* the callbacks for that id.
C36_AtMostOneFinalMessage ==
    [][(IsCallbackReturn(last') /\ last'.c.sent # NoMsg) =>
          MapHas(taskStatus, last'.c.token)]_vars

\* the callback in slot s, past the lookup of line 532 and awaiting
\* fileExists or downloadFile, goes on to the delivery step
ReachesDelivery(s) ==
    /\ cb[s].pc \in {"fileExists", "download"}
    /\ cb'[s] # cb[s]
    /\ cb'[s].pc # "download"

\* C37: when the delivery step of a callback that was awaiting fileExists or
\* downloadFile starts and the context of its task id is no longer in the
\* store (a concurrent reconcile of the id, or the sweep, has removed it),
\* the handler returns with no message sent: no send is started, neither the
\* first one nor the text-only one, and the store is left as it is.
C37_NoDeliveryWithoutContext ==
    [][\A s \in Slots :
          (ReachesDelivery(s) /\ ~MapHas(taskStatus, cb[s].token)) =>
              /\ cb'[s].pc = "idle"
              /\ IsCallbackReturn(last')
              /\ last'.c.token = cb[s].token
              /\ last'.c.outcome = "noTaskInfo"
              /\ last'.c.sent = NoMsg
              /\ last'.c.pending = NoMsg
              /\ taskStatus' = taskStatus]_vars
C37_Witness ==
    /\ IsCallbackReturn(last)
    /\ last.c.outcome = "noTaskInfo"
    /\ last.c.downloads = 1
    /\ last.c.sent = NoMsg
    /\ hist[last.c.token].op \in {"deleted", "swept"}

\* the awaits of handleRemoteTaskCommand and of handleRemoteServiceCallback
\* in the order of the code
DispatchRank(pc) ==
    CASE pc = "idle" -> 0
      [] pc = "trigger" -> 1
      [] pc \in {"started", "result"} -> 2
      [] pc = "error" -> 3
      [] OTHER -> 4
CallbackRank(pc) ==
    CASE pc = "idle" -> 0
      [] pc = "fileExists" -> 1
      [] pc = "download" -> 2
      [] pc = "primary" -> 3
      [] pc = "fallback" -> 4
      [] OTHER -> 5
AfterDispatch(s) == IF disp'[s].pc = "idle" THEN last'.d ELSE disp'[s]
AllReturned == \A s \in Slots : disp[s].pc = "idle" /\ cb[s].pc = "idle"

\* C38: when every outbound call eventually succeeds, fails or is aborted,
\* every invocation of the dispatch and of the reconcile eventually returns:
\* each step of a handler takes it to a later await of its code or to its
\* return, never back, so that a reconcile awaits at most one download, one
\* first send and one text-only send, and from some point on no handler is
\* awaiting anything.
C38_HandlersReturn ==
    /\ [][\A s \in Slots :
             /\ (disp[s].pc # "idle" /\ disp'[s] # disp[s]) =>
                   DispatchRank(AfterDispatch(s).pc) > DispatchRank(disp[s].pc)
             /\ (cb[s].pc # "idle" /\ cb'[s] # cb[s]) =>
                   /\ CallbackRank(After(s).pc) > CallbackRank(cb[s].pc)
                   /\ After(s).downloads <= 1]_vars
    /\ <>[]AllReturned
C38_Witness ==
    /\ IsCallbackReturn(last)
    /\ last.c.downloads = 1
    /\ last.c.outcome = "textOnly"
    /\ AllReturned
    /\ started = MaxReconcileHandlers

====
